---- MODULE Spec2Model ----
(***************************************************************************)
(* Model of the chatbot backend: the /api/chat and /api/query handlers of  *)
(* src/server.js (per-request connection, closed in a finally block) and   *)
(* of src/unnamed/part_000 (one module-level pool opened at start-up).     *)
(* A step of the model is the code that runs between two awaits.           *)
(***************************************************************************)
EXTENDS Integers, Sequences, FiniteSets, TLC

VARIABLES
  variant,    \* which file is deployed: "serverless" (server.js) or "local" (part_000)
  sqlGlobal,  \* mssql's global connection pool: 0 = none, else the id of the open pool
  pool,       \* part_000:37  module-level `let pool` (0 = undefined)
  startup,    \* part_000:49  connectToDatabase(): "pending" or "done"
  pc,         \* per request: position of the handler
  kind,       \* per request: "chat" or "query"
  handle,     \* server.js:105,201  handler-local `let pool` (0 = undefined)
  reqQuery,   \* per request: req.body.query of /api/query
  upstream,   \* per request: whether the model service will ever answer
  text,       \* per request: claudeMessage (server.js:157)
  log,        \* per request: the store and model-service operations performed, in order
  status,     \* per request: HTTP status of the response sent (0 = none yet)
  body,       \* per request: body of the response sent
  sent        \* per request: number of responses sent

vars == <<variant, sqlGlobal, pool, startup, pc, kind, handle, reqQuery,
          upstream, text, log, status, body, sent>>

\* Number of requests the model lets arrive (each request id is used once).
NumRequests == 2

Req == 1..NumRequests

\* Id of the pool opened by connectToDatabase() at start-up (part_000:41).
StartupPool == NumRequests + 1

-----------------------------------------------------------------------------
(* JavaScript values: a type tag and a printable payload. *)

Undefined == [t |-> "undefined", v |-> ""]
Null      == [t |-> "null", v |-> ""]
Str(s)    == [t |-> "string", v |-> s]
Num(s)    == [t |-> "number", v |-> s]
Bool(s)   == [t |-> "boolean", v |-> s]

\* result.recordset of a successful query; v is its JSON.stringify(_, null, 2) rendering
Recordset == [t |-> "array", v |-> "[{\"\":5}]"]

\* JavaScript truthiness, as used by `if (parsedResponse.needsQuery && parsedResponse.query)`
Truthy(x) ==
  CASE x.t = "undefined" -> FALSE
    [] x.t = "null"      -> FALSE
    [] x.t = "boolean"   -> x.v = "true"
    [] x.t = "string"    -> x.v # ""
    [] x.t = "number"    -> x.v # "0"
    [] OTHER             -> TRUE

\* String(x), as performed by a template literal `${x}`
ToStr(x) ==
  CASE x.t = "undefined" -> "undefined"
    [] x.t = "null"      -> "null"
    [] OTHER             -> x.v

-----------------------------------------------------------------------------
(* Strings.  A string is a TLA+ string; Chars gives its characters, so that  *)
(* trim, toUpperCase and startsWith are computed character by character.     *)

\* The query strings the model draws the bodies of /api/query from.
Queries == {" select 1 ", "SELECTX 1", "UPDATE t SET x=1"}

Chars(s) ==
  CASE s = "SELECT 1" -> <<"S", "E", "L", "E", "C", "T", " ", "1">>
    [] s = " select 1 " -> <<" ", "s", "e", "l", "e", "c", "t", " ", "1", " ">>
    [] s = "SELECTX 1" -> <<"S", "E", "L", "E", "C", "T", "X", " ", "1">>
    [] s = "UPDATE t SET x=1" ->
         <<"U", "P", "D", "A", "T", "E", " ", "t", " ", "S", "E", "T", " ", "x", "=", "1">>
    [] s = "DROP TABLE t" -> <<"D", "R", "O", "P", " ", "T", "A", "B", "L", "E", " ", "t">>
    [] s = "SELECT 1; DROP TABLE t" ->
         <<"S", "E", "L", "E", "C", "T", " ", "1", ";", " ",
           "D", "R", "O", "P", " ", "T", "A", "B", "L", "E", " ", "t">>
    [] s = "" -> <<>>

IsSpace(c) == c \in {" ", "\t", "\n"}

\* String.prototype.trim on a character sequence
RECURSIVE TrimLeft(_)
TrimLeft(cs) ==
  IF cs # <<>> /\ IsSpace(Head(cs)) THEN TrimLeft(Tail(cs)) ELSE cs

RECURSIVE TrimRight(_)
TrimRight(cs) ==
  IF cs # <<>> /\ IsSpace(cs[Len(cs)]) THEN TrimRight(SubSeq(cs, 1, Len(cs) - 1)) ELSE cs

trim(cs) == TrimRight(TrimLeft(cs))

UpperChar(c) ==
  CASE c = "a" -> "A" [] c = "b" -> "B" [] c = "c" -> "C" [] c = "d" -> "D"
    [] c = "e" -> "E" [] c = "l" -> "L" [] c = "o" -> "O" [] c = "p" -> "P"
    [] c = "r" -> "R" [] c = "s" -> "S" [] c = "t" -> "T" [] c = "u" -> "U"
    [] c = "x" -> "X" [] OTHER -> c

\* String.prototype.toUpperCase on a character sequence
toUpperCase(cs) == [i \in 1..Len(cs) |-> UpperChar(cs[i])]

\* String.prototype.startsWith
startsWith(cs, prefix) ==
  Len(prefix) <= Len(cs) /\ SubSeq(cs, 1, Len(prefix)) = prefix

SELECT == <<"S", "E", "L", "E", "C", "T">>

\* server.js:206  query.trim().toUpperCase().startsWith('SELECT')
PassesSelectCheck(q) == startsWith(toUpperCase(trim(Chars(q))), SELECT)

-----------------------------------------------------------------------------
(* JSON.parse on the texts the model service is let to return. *)

Obj(nq, q, resp) == [t |-> "object", needsQuery |-> nq, query |-> q, response |-> resp]

T_plain   == "I don't know"
T_empty   == ""
T_trunc   == "{\"needsQuery\":true,"
T_null    == "null"
T_number  == "5"
T_object  == "{}"
T_answer  == "{\"needsQuery\":false,\"query\":\"SELECT 1\",\"response\":\"hi\"}"
T_select  == "{\"needsQuery\":true,\"query\":\"SELECT 1\",\"response\":\"here\"}"
T_chain   == "{\"needsQuery\":true,\"query\":\"SELECT 1; DROP TABLE t\",\"response\":\"ok\"}"
T_truthy  == "{\"needsQuery\":1,\"query\":\"SELECT 1\",\"response\":\"one\"}"
T_noquery == "{\"needsQuery\":true,\"response\":5}"

ModelTexts ==
  {T_plain, T_empty, T_trunc, T_null, T_number, T_object, T_answer, T_select,
   T_chain, T_truthy, T_noquery}

Parsed(val)  == [ok |-> TRUE, val |-> val]
SyntaxError  == [ok |-> FALSE, val |-> Undefined]

\* JSON.parse(msg): msg is first converted to a string, so undefined is the
\* text "undefined", which is no JSON value.
JSONParse(msg) ==
  IF msg.t # "string" THEN SyntaxError
  ELSE CASE msg.v = T_null    -> Parsed(Null)
         [] msg.v = T_number  -> Parsed(Num("5"))
         [] msg.v = T_object  -> Parsed(Obj(Undefined, Undefined, Undefined))
         [] msg.v = T_answer  -> Parsed(Obj(Bool("false"), Str("SELECT 1"), Str("hi")))
         [] msg.v = T_select  -> Parsed(Obj(Bool("true"), Str("SELECT 1"), Str("here")))
         [] msg.v = T_chain   ->
              Parsed(Obj(Bool("true"), Str("SELECT 1; DROP TABLE t"), Str("ok")))
         [] msg.v = T_truthy  -> Parsed(Obj(Num("1"), Str("SELECT 1"), Str("one")))
         [] msg.v = T_noquery -> Parsed(Obj(Bool("true"), Undefined, Num("5")))
         [] OTHER             -> SyntaxError

\* val.name for a value that is neither null nor undefined: a property of an
\* object, undefined on a primitive
Prop(val, name) == IF val.t = "object" THEN val[name] ELSE Undefined

\* Interpret with the raw message lost when the parse fails (as if claudeMessage
\* were overwritten before JSON.parse threw).
Interpret_RawLost(msg) ==
  LET p == JSONParse(msg) IN
  IF ~p.ok \/ p.val.t = "null"
    THEN [exec |-> FALSE, query |-> "", message |-> Undefined]
  ELSE IF Truthy(Prop(p.val, "needsQuery")) /\ Truthy(Prop(p.val, "query"))
    THEN [exec |-> TRUE, query |-> Prop(p.val, "query").v, message |-> msg]
  ELSE [exec |-> FALSE, query |-> "", message |-> Prop(p.val, "response")]

\* Interpret with the needsQuery test dropped: any query present is executed.
Interpret_IgnoresNeedsQuery(msg) ==
  LET p == JSONParse(msg) IN
  IF ~p.ok \/ p.val.t = "null"
    THEN [exec |-> FALSE, query |-> "", message |-> msg]
  ELSE IF Truthy(Prop(p.val, "query"))
    THEN [exec |-> TRUE, query |-> Prop(p.val, "query").v, message |-> msg]
  ELSE [exec |-> FALSE, query |-> "", message |-> Prop(p.val, "response")]

\* The try block of server.js:161-177 up to its first await: whether a query
\* is to be executed, which, and the message to answer with otherwise.
\*   - JSON.parse throws: the catch keeps the raw message;
\*   - the value is null: reading null.needsQuery throws, same catch;
\*   - needsQuery and query truthy: the query is executed;
\*   - otherwise the message is parsedResponse.response.
Interpret(msg) ==
  LET p == JSONParse(msg) IN
  IF ~p.ok \/ p.val.t = "null"
    THEN [exec |-> FALSE, query |-> "", message |-> msg]
  ELSE IF Truthy(Prop(p.val, "needsQuery")) /\ Truthy(Prop(p.val, "query"))
    THEN [exec |-> TRUE, query |-> Prop(p.val, "query").v, message |-> msg]
  ELSE [exec |-> FALSE, query |-> "", message |-> Prop(p.val, "response")]

\* server.js:170  `${parsedResponse.response}\n\nQuery Results:\n${JSON.stringify(...)}`
WithResults(msg, rows) ==
  Str(ToStr(Prop(JSONParse(msg).val, "response")) \o "\n\nQuery Results:\n" \o rows.v)

-----------------------------------------------------------------------------
(* Responses. *)

NoBody == [response |-> Undefined, queryResult |-> Undefined, error |-> Undefined,
           details |-> Undefined, rows |-> Undefined]

\* server.js:179-183  res.json({response, queryResult, timestamp})
ChatBody(message, queryResult) ==
  [NoBody EXCEPT !.response = message, !.queryResult = queryResult]

\* The catch of /api/chat: server.js:187 sends the error's message as details,
\* part_000:164 sends the fixed text only.
ChatError(msg) ==
  IF variant = "serverless"
    THEN [NoBody EXCEPT !.error = Str("Internal server error"), !.details = Str(msg)]
    ELSE [NoBody EXCEPT !.error = Str("Internal server error")]

\* server.js:207,215  res.status(...).json({ error: ... })
QueryError(msg) == [NoBody EXCEPT !.error = Str(msg)]

\* server.js:212  res.json(result.recordset)
QueryBody(rows) == [NoBody EXCEPT !.rows = rows]

\* err.message of a rejected store operation
ErrMsg(res) ==
  CASE res = "closed"  -> "Connection is closed"
    [] res = "connect" -> "Failed to connect"
    [] res = "type"    -> "Cannot read properties of undefined"
    [] res = "model"   -> "Request failed"
    [] OTHER           -> "Invalid object name"

-----------------------------------------------------------------------------
(* The connection pool. *)

\* The pool a handler uses: its own `pool` in server.js, the module's in part_000.
PoolOf(r) == IF variant = "serverless" THEN handle[r] ELSE pool

\* A pool object is open while it is mssql's global pool.
PoolOpen(p) == p # 0 /\ p = sqlGlobal

\* The outcomes of `await pool.request().query(...)`: the store answers or
\* rejects the query, and a closed pool rejects every request.
StoreResults(r) == IF PoolOpen(PoolOf(r)) THEN {"ok", "error"} ELSE {"closed"}

\* sql.connect(sqlConfig) resolved: the global pool when there is one, else a
\* new pool, which becomes the global one (server.js:40).
ConnectedPool(r) == IF sqlGlobal # 0 THEN sqlGlobal ELSE r

\* pool.close() (server.js:191): the pool is closed; mssql drops a closed global pool.
AfterClose(p) == IF sqlGlobal = p THEN 0 ELSE sqlGlobal

\* AfterResponse with the finally block missing from /api/query.
AfterResponse_QueryLeaks(r) ==
  IF variant = "serverless" /\ handle[r] # 0 /\ kind[r] = "chat" THEN "finally" ELSE "done"

\* Where the handler goes once the response is sent: server.js closes the pool
\* it holds in its finally block (server.js:188-196); part_000 has no finally.
AfterResponse(r) ==
  IF variant = "serverless" /\ handle[r] # 0 THEN "finally" ELSE "done"

Entry(op, q, res) == [op |-> op, q |-> q, res |-> res]

Logged(r, e) == log' = [log EXCEPT ![r] = Append(@, e)]

\* res.status(code).json(b), then the rest of the handler up to its next await
Send(r, code, b) ==
  /\ status' = [status EXCEPT ![r] = code]
  /\ body' = [body EXCEPT ![r] = b]
  /\ sent' = [sent EXCEPT ![r] = @ + 1]
  /\ pc' = [pc EXCEPT ![r] = AfterResponse(r)]

-----------------------------------------------------------------------------
Init ==
  /\ variant \in {"serverless", "local"}
  /\ sqlGlobal = 0
  /\ pool = 0
  /\ startup = IF variant = "local" THEN "pending" ELSE "done"
  /\ pc = [r \in Req |-> "idle"]
  /\ kind = [r \in Req |-> "none"]
  /\ handle = [r \in Req |-> 0]
  /\ reqQuery = [r \in Req |-> Undefined]
  /\ upstream = [r \in Req |-> "none"]
  /\ text = [r \in Req |-> Undefined]
  /\ log = [r \in Req |-> <<>>]
  /\ status = [r \in Req |-> 0]
  /\ body = [r \in Req |-> NoBody]
  /\ sent = [r \in Req |-> 0]

\* part_000:39-49  connectToDatabase(), called once when the module loads; a
\* failure is logged and leaves `pool` undefined.
ConnectToDatabase ==
  /\ variant = "local" /\ startup = "pending"
  /\ startup' = "done"
  /\ \E ok \in BOOLEAN :
       IF ok THEN pool' = StartupPool /\ sqlGlobal' = StartupPool
             ELSE UNCHANGED <<pool, sqlGlobal>>
  /\ UNCHANGED <<variant, pc, kind, handle, reqQuery, upstream, text, log, status,
                 body, sent>>

\* Requests arrive in the order of their ids.
MayArrive(r) == pc[r] = "idle" /\ \A o \in Req : o < r => pc[o] # "idle"

\* /api/chat up to its first await.  server.js:107-110 asks for a connection;
\* part_000:87-91 calls pool.request() on the module's pool, which throws a
\* TypeError while the pool is undefined.
ChatStart(r) ==
  /\ MayArrive(r)
  /\ kind' = [kind EXCEPT ![r] = "chat"]
  /\ IF variant = "serverless"
       THEN /\ pc' = [pc EXCEPT ![r] = "connect"]
            /\ UNCHANGED <<log, status, body, sent>>
       ELSE IF pool = 0
         THEN /\ Logged(r, Entry("catalog", "", "type"))
              /\ Send(r, 500, ChatError(ErrMsg("type")))
         ELSE /\ pc' = [pc EXCEPT ![r] = "catalog"]
              /\ UNCHANGED <<log, status, body, sent>>
  /\ UNCHANGED <<variant, sqlGlobal, pool, startup, handle, reqQuery, upstream, text>>

\* /api/query up to its first await (server.js:203-211, part_000:171-178).
\* A body without a query makes query.trim() throw a TypeError.
QueryStart(r) ==
  /\ MayArrive(r)
  /\ kind' = [kind EXCEPT ![r] = "query"]
  /\ \E q \in {Str(s) : s \in Queries} \cup {Undefined} :
       /\ reqQuery' = [reqQuery EXCEPT ![r] = q]
       /\ IF q.t # "string"
            THEN Send(r, 500, QueryError(ErrMsg("type"))) /\ UNCHANGED log
          ELSE IF ~PassesSelectCheck(q.v)
            THEN Send(r, 400, QueryError("Only SELECT queries are allowed"))
                 /\ UNCHANGED log
          ELSE IF variant = "serverless"
            THEN /\ pc' = [pc EXCEPT ![r] = "connect"]
                 /\ UNCHANGED <<log, status, body, sent>>
          ELSE IF pool = 0
            THEN /\ Logged(r, Entry("exec", q.v, "type"))
                 /\ Send(r, 500, QueryError(ErrMsg("type")))
          ELSE /\ pc' = [pc EXCEPT ![r] = "exec"]
               /\ UNCHANGED <<log, status, body, sent>>
  /\ UNCHANGED <<variant, sqlGlobal, pool, startup, handle, upstream, text>>

\* server.js:38-46  await getDatabaseConnection(): the pool, or the error rethrown
\* to the handler's catch.
Connect(r) ==
  /\ pc[r] = "connect"
  /\ \E ok \in BOOLEAN :
       IF ok
         THEN /\ handle' = [handle EXCEPT ![r] = ConnectedPool(r)]
              /\ sqlGlobal' = ConnectedPool(r)
              /\ pc' = [pc EXCEPT ![r] = IF kind[r] = "chat" THEN "catalog" ELSE "exec"]
              /\ UNCHANGED <<log, status, body, sent>>
         ELSE /\ Logged(r, Entry("connect", "", "error"))
              /\ Send(r, 500, IF kind[r] = "chat" THEN ChatError(ErrMsg("connect"))
                                                  ELSE QueryError(ErrMsg("connect")))
              /\ UNCHANGED <<handle, sqlGlobal>>
  /\ UNCHANGED <<variant, pool, startup, kind, reqQuery, upstream, text>>

\* server.js:113-155  the catalog query resolves; on success the prompt is built
\* and axios.post is issued, with no timeout option.
Catalog(r) ==
  /\ pc[r] = "catalog"
  /\ \E res \in StoreResults(r) :
       /\ Logged(r, Entry("catalog", "", res))
       /\ IF res = "ok"
            THEN /\ pc' = [pc EXCEPT ![r] = "model"]
                 /\ \E u \in {"answers", "hangs"} : upstream' = [upstream EXCEPT ![r] = u]
                 /\ UNCHANGED <<status, body, sent>>
            ELSE /\ Send(r, 500, ChatError(ErrMsg(res)))
                 /\ UNCHANGED upstream
  /\ UNCHANGED <<variant, sqlGlobal, pool, startup, kind, handle, reqQuery, text>>

\* server.js:135  axios.post rejects (network error or non-2xx status)
ModelError(r) ==
  /\ pc[r] = "model" /\ upstream[r] = "answers"
  /\ Logged(r, Entry("model", "", "error"))
  /\ Send(r, 500, ChatError(ErrMsg("model")))
  /\ UNCHANGED <<variant, sqlGlobal, pool, startup, kind, handle, reqQuery, upstream, text>>

\* The response bodies of the model service: data.content missing, content[0]
\* without a text field, or content[0].text a string.
ModelBodies ==
  {[content |-> "absent", text |-> ""], [content |-> "notext", text |-> ""]}
    \cup {[content |-> "text", text |-> t] : t \in ModelTexts}

\* server.js:157-183  axios.post resolves with `data`; the message is read,
\* interpreted, and either a query is issued or the response is sent.
ModelReply(r) ==
  /\ pc[r] = "model" /\ upstream[r] = "answers"
  /\ \E data \in ModelBodies :
       IF data.content = "absent"
         THEN \* data.content[0] throws a TypeError, caught at server.js:185
              /\ Logged(r, Entry("model", "", "absent"))
              /\ Send(r, 500, ChatError(ErrMsg("type")))
              /\ UNCHANGED text
         ELSE LET msg == IF data.content = "text" THEN Str(data.text) ELSE Undefined
                  i   == Interpret(msg)
              IN /\ Logged(r, Entry("model", "", IF data.content = "text" THEN "ok" ELSE "notext"))
                 /\ text' = [text EXCEPT ![r] = msg]
                 /\ IF i.exec
                      THEN /\ pc' = [pc EXCEPT ![r] = "exec"]
                           /\ UNCHANGED <<status, body, sent>>
                      ELSE Send(r, 200, ChatBody(i.message, Null))
  /\ UNCHANGED <<variant, sqlGlobal, pool, startup, kind, handle, reqQuery, upstream>>

\* server.js:166-183  the model-proposed query resolves or rejects; a rejection
\* is caught by the catch of the parse (server.js:174), which keeps the raw message.
ChatExec(r) ==
  /\ pc[r] = "exec" /\ kind[r] = "chat"
  /\ \E res \in StoreResults(r) :
       /\ Logged(r, Entry("exec", Interpret(text[r]).query, res))
       /\ IF res = "ok"
            THEN Send(r, 200, ChatBody(WithResults(text[r], Recordset), Recordset))
            ELSE Send(r, 200, ChatBody(text[r], Null))
  /\ UNCHANGED <<variant, sqlGlobal, pool, startup, kind, handle, reqQuery, upstream, text>>

\* server.js:211-215  the query of /api/query resolves or rejects
QueryExec(r) ==
  /\ pc[r] = "exec" /\ kind[r] = "query"
  /\ \E res \in StoreResults(r) :
       /\ Logged(r, Entry("exec", reqQuery[r].v, res))
       /\ IF res = "ok"
            THEN Send(r, 200, QueryBody(Recordset))
            ELSE Send(r, 500, QueryError(ErrMsg(res)))
  /\ UNCHANGED <<variant, sqlGlobal, pool, startup, kind, handle, reqQuery, upstream, text>>

\* server.js:188-196, 216-224  finally: await pool.close()
Close(r) ==
  /\ pc[r] = "finally"
  /\ sqlGlobal' = AfterClose(handle[r])
  /\ pc' = [pc EXCEPT ![r] = "done"]
  /\ UNCHANGED <<variant, pool, startup, kind, handle, reqQuery, upstream, text, log,
                 status, body, sent>>

Step(r) ==
  \/ ChatStart(r)
  \/ QueryStart(r)
  \/ Connect(r)
  \/ Catalog(r)
  \/ ModelError(r)
  \/ ModelReply(r)
  \/ ChatExec(r)
  \/ QueryExec(r)
  \/ Close(r)

Next ==
  \/ ConnectToDatabase
  \/ \E r \in Req : Step(r)

Spec == Init /\ [][Next]_vars

\* The event loop runs every continuation that is ready, and start-up completes.
FairSpec ==
  Spec /\ WF_vars(ConnectToDatabase) /\ \A r \in Req : WF_vars(Step(r))

-----------------------------------------------------------------------------
(* The properties. *)

Done(r) == pc[r] = "done"

Entries(r) == {log[r][i] : i \in DOMAIN log[r]}

\* the operation was sent to the store (the pool was there and open)
ReachedStore(e) == e.op \in {"catalog", "exec"} /\ e.res \in {"ok", "error"}

\* The read-only, single-statement policy of the query guard, on the text of a query.
ForbiddenKeywords ==
  {<<"I", "N", "S", "E", "R", "T">>,
   <<"U", "P", "D", "A", "T", "E">>,
   <<"D", "E", "L", "E", "T", "E">>,
   <<"D", "R", "O", "P">>,
   <<"A", "L", "T", "E", "R">>,
   <<"C", "R", "E", "A", "T", "E">>,
   <<"T", "R", "U", "N", "C", "A", "T", "E">>,
   <<"M", "E", "R", "G", "E">>,
   <<"E", "X", "E", "C">>,
   <<"E", "X", "E", "C", "U", "T", "E">>,
   <<"G", "R", "A", "N", "T">>,
   <<"R", "E", "V", "O", "K", "E">>}

Contains(cs, w) == \E i \in 1..Len(cs) : startsWith(SubSeq(cs, i, Len(cs)), w)

IsLetter(c) ==
  c \in {"A", "B", "C", "D", "E", "F", "G", "H", "I", "J", "K", "L", "M", "N", "O",
         "P", "Q", "R", "S", "T", "U", "V", "W", "X", "Y", "Z", "_"}

\* the first token of the upper-cased, trimmed text is the word SELECT
FirstTokenIsSelect(cs) ==
  startsWith(cs, SELECT) /\ (Len(cs) > Len(SELECT) => ~IsLetter(cs[Len(SELECT) + 1]))

\* a semicolon followed by anything but white space and semicolons
SecondStatement(cs) ==
  \E i \in 1..Len(cs) :
    /\ cs[i] = ";"
    /\ \E j \in (i + 1)..Len(cs) : ~IsSpace(cs[j]) /\ cs[j] # ";"

GuardAllows(q) ==
  LET cs == toUpperCase(trim(Chars(q))) IN
    /\ cs # <<>>
    /\ ~SecondStatement(cs)
    /\ FirstTokenIsSelect(cs)
    /\ \A w \in ForbiddenKeywords : ~Contains(cs, w)

\* C1: in /chat a model-proposed query reaches the store only if the query
\* guard allows it (single statement, first token SELECT, no forbidden keyword).
C1_OnlyGuardedQueriesRun ==
  \A r \in Req : \A e \in Entries(r) :
    (kind[r] = "chat" /\ e.op = "exec" /\ ReachedStore(e)) => GuardAllows(e.q)

\* C2: a request that acquired a connection and has completed has released it:
\* the pool it held is closed.
C2_ConnectionReleased ==
  \A r \in Req : (Done(r) /\ handle[r] # 0) => ~PoolOpen(handle[r])

\* C2 witness: a request that acquired a connection completed on an error path
\* and another on the success path.
C2_Witness ==
  /\ \E r \in Req : Done(r) /\ handle[r] # 0 /\ status[r] = 500
  /\ \E r \in Req : Done(r) /\ handle[r] # 0 /\ status[r] = 200

\* C3: when the store fails executing the model-proposed query of a /chat
\* request, the response is a 5xx that carries the store's error message.
C3_QueryFailureReported ==
  \A r \in Req :
    (/\ kind[r] = "chat"
     /\ status[r] # 0
     /\ \E e \in Entries(r) : e.op = "exec" /\ e.res = "error")
    => (status[r] >= 500 /\ body[r].details = Str(ErrMsg("error")))

\* C4: when the model's text is no JSON, the /chat request is answered 200 with
\* the raw text as response and a null queryResult, and no query is executed.
C4_RawTextFallback ==
  \A r \in Req :
    (text[r].t = "string" /\ ~JSONParse(text[r]).ok)
    => /\ status[r] = 200
       /\ body[r].response = text[r]
       /\ body[r].queryResult = Null
       /\ \A e \in Entries(r) : e.op # "exec"

\* C4 witness: a /chat request whose model text was no JSON has been answered.
C4_Witness ==
  \E r \in Req : text[r] = Str(T_plain) /\ sent[r] = 1 /\ kind[r] = "chat"

\* C5: every 200 response of /chat carries a response field that is a string.
C5_ResponseIsString ==
  \A r \in Req :
    (kind[r] = "chat" /\ status[r] = 200) => body[r].response.t = "string"

\* C6: a /query request is answered 200 with the rows only if the first token
\* of its query is SELECT; every other query is answered 400 and the store is
\* not accessed for it.  (That a SELECT query is answered 200 is left out: it
\* cannot hold when the connection or the store fails.)
C6_SelectOnly ==
  \A r \in Req :
    (kind[r] = "query" /\ Done(r) /\ reqQuery[r].t = "string")
    => LET cs == toUpperCase(trim(Chars(reqQuery[r].v))) IN
         /\ status[r] = 200 => FirstTokenIsSelect(cs)
         /\ ~FirstTokenIsSelect(cs) =>
              (status[r] = 400 /\ \A e \in Entries(r) : ~ReachedStore(e))

\* a component of /chat failed: the connection, the catalog query, the model
\* service, or the shape of the model service's body
ComponentFailed(r) ==
  \E e \in Entries(r) : e.op \in {"connect", "catalog", "model"} /\ e.res # "ok"

\* C7: every completed /chat request sent exactly one response, and a 500 one
\* when a component failed.
C7_FailuresBecome500 ==
  \A r \in Req :
    (kind[r] = "chat" /\ Done(r))
    => (sent[r] = 1 /\ (ComponentFailed(r) => status[r] = 500))

\* C8: a /chat request waiting for the model service is eventually answered,
\* also when the model service never answers.
C8_ModelCallBounded ==
  \A r \in Req : (pc[r] = "model") ~> (status[r] # 0)

\* the operations of a request, the connection attempt left out
Ops(r) ==
  LET IsOp(e) == e.op # "connect"
      es == SelectSeq(log[r], IsOp)
  IN  [i \in DOMAIN es |-> es[i].op]

ChatOrder == <<"catalog", "model", "exec">>

C10_Independent ==
  \A r \in Req : \A e \in Entries(r) : e.res # "closed"

====
